---------------------------- MODULE Spec2Model ----------------------------
(***************************************************************************)
(* A model of the email-verifier repository's disposable-domain blocklists *)
(* and of the HTTP handlers around them.                                   *)
(*                                                                         *)
(* The repository holds several programs that never run in one process:    *)
(*   "ext"   src/main.go:119-182 with ExternalDisposableChecker            *)
(*           (src/unnamed/part_001) and NewCheckExternalDisposableHandler  *)
(*   "main1" src/main.go:1-118 with DisposableBlocklist and                *)
(*           DisposableCheckHandler (src/pkg/validator/disposable_...go)   *)
(*   "dbl"   a DisposableBlocklist used by arbitrary concurrent callers    *)
(*   "proxy" src/proxy-validator-service/server.js                         *)
(*   "api"   Handler.HandleValidate / HandleBatchValidate /                *)
(*           HandleTypoSuggestions                                         *)
(* A behaviour is one of them running: Init picks the program (prog) and   *)
(* only that program's actions are enabled.                                *)
(*                                                                         *)
(* Text is a sequence of one-character strings, so that trimming, prefix   *)
(* tests, splitting and lower-casing are computed as the code computes     *)
(* them.                                                                   *)
(***************************************************************************)
EXTENDS Naturals, Sequences, FiniteSets, TLC

VARIABLES
    prog,                \* which program of the repository is running
    now,                 \* wall clock, in hours (time.Now() / Date.now())
    remoteMode,          \* how the remote blocklist source answers a fetch
    remoteBody,          \* the text the remote source serves
    log,                 \* kinds of log lines written so far (only the lines of
                         \* DisposableBlocklist are recorded)
    \* ---- ExternalDisposableChecker and its program (part_001, main.go:119-182)
    c_disposableDomains, \* ExternalDisposableChecker.disposableDomains
    c_lastUpdated,       \* ExternalDisposableChecker.lastUpdated (0: zero time)
    c_mu,                \* ExternalDisposableChecker.mu: "free" or the writer
    ext_pc,              \* main: "startup", "loading", "serving", "exited"
    ext_ld,              \* per caller of LoadDisposableDomains: its position and locals
    tickPending,         \* a tick waits in ticker.C (a channel of capacity 1)
    ext_req,             \* the last request to /api/check-disposable and its response
    \* ---- DisposableBlocklist and its program (disposable_blocklist.go, main.go:1-118)
    db_domains,          \* DisposableBlocklist.domains
    db_once,             \* DisposableBlocklist.once: "new", "running", "done"
    db_mu,               \* DisposableBlocklist.mu: "free" or the writer
    db_ld,               \* per caller of Load / IsDisposable: its position and locals
    m1_pc,               \* main: "startup", "loading", "serving", "exited"
    m1_req,              \* the last request to DisposableCheckHandler and its response
    \* ---- Handler (disposable_blocklist.go:185-348)
    api_req,             \* the last request to Handler and its response
    \* ---- the proxy (server.js)
    disposableDomains,   \* server.js:16
    lastLoadedTimestamp, \* server.js:17
    API_KEYS,            \* server.js:14, read from the environment at startup
    px_loads,            \* calls of loadDisposableDomains waiting in axios.get
    px_last,             \* how the last call of loadDisposableDomains ended
    px_req               \* the last request to /proxy-validate and its response

extVars == << c_disposableDomains, c_lastUpdated, c_mu, ext_pc, ext_ld,
             tickPending, ext_req >>

dbVars == << db_domains, db_once, db_mu, db_ld, m1_pc, m1_req >>

\* the variables of the programs other than "ext", and other than "main1" and "dbl"
pxVars == << disposableDomains, lastLoadedTimestamp, API_KEYS, px_loads, px_last,
            px_req >>

notExt == << dbVars, api_req, pxVars >>
notDb == << extVars, api_req, pxVars >>
notPx == << extVars, dbVars, api_req, log >>

vars == << prog, now, remoteMode, remoteBody, log, extVars, dbVars, api_req,
           pxVars >>

-----------------------------------------------------------------------------
(* Bounds of the model *)

\* the clock of the Go program runs from StartTime to StartTime + MaxTime;
\* the proxy's, which decides when a refresh is due, one hour further, and
\* then stays there
MaxTime == 1

\* at most this many calls of loadDisposableDomains wait for their response
MaxLoads == 2

-----------------------------------------------------------------------------
(* Text *)

Whitespace == {" ", "\t", "\r"}
LowerLetters == {"a", "i", "m", "o", "t", "x"}
UpperLetters == {"A", "I", "M", "O", "T", "X"}

\* strings.ToLower / String.prototype.toLowerCase on one character
ToLowerChar(ch) ==
    CASE ch = "A" -> "a"
      [] ch = "I" -> "i"
      [] ch = "M" -> "m"
      [] ch = "O" -> "o"
      [] ch = "T" -> "t"
      [] ch = "X" -> "x"
      [] OTHER -> ch

ToLower(s) == [i \in 1..Len(s) |-> ToLowerChar(s[i])]

RECURSIVE TrimLeft(_)
TrimLeft(s) ==
    IF s # << >> /\ Head(s) \in Whitespace THEN TrimLeft(Tail(s)) ELSE s

RECURSIVE TrimRight(_)
TrimRight(s) ==
    IF s # << >> /\ s[Len(s)] \in Whitespace
    THEN TrimRight(SubSeq(s, 1, Len(s) - 1))
    ELSE s

\* strings.TrimSpace / String.prototype.trim
TrimSpace(s) == TrimRight(TrimLeft(s))

\* strings.HasPrefix / String.prototype.startsWith
HasPrefix(s, p) == Len(s) >= Len(p) /\ SubSeq(s, 1, Len(p)) = p

\* strings.Split / String.prototype.split with a one-character separator:
\* always at least one piece, an empty piece after a trailing separator
RECURSIVE SplitAcc(_, _, _)
SplitAcc(s, sep, cur) ==
    IF s = << >> THEN << cur >>
    ELSE IF Head(s) = sep THEN << cur >> \o SplitAcc(Tail(s), sep, << >>)
    ELSE SplitAcc(Tail(s), sep, Append(cur, Head(s)))

Split(s, sep) == SplitAcc(s, sep, << >>)

DropCR(s) ==
    IF s # << >> /\ s[Len(s)] = "\r" THEN SubSeq(s, 1, Len(s) - 1) ELSE s

\* bufio.Scanner with the default ScanLines: the lines of the text without
\* their terminators, and no empty last line after a final newline
ScanLines(text) ==
    LET pieces == Split(text, "\n")
        kept == IF pieces[Len(pieces)] = << >>
                THEN SubSeq(pieces, 1, Len(pieces) - 1)
                ELSE pieces
    IN  [i \in 1..Len(kept) |-> DropCR(kept[i])]

Range(f) == {f[i] : i \in DOMAIN f}

-----------------------------------------------------------------------------
(* The data the model runs on *)

Comment == << "#" >>

\* " m.io \n#x\nT.io\n": a padded line, a comment, a line with a capital
Body1 == << " ", "m", ".", "i", "o", " ", "\n", "#", "x", "\n",
            "T", ".", "i", "o", "\n" >>
\* "\nx.io": a blank line, and a last line without a newline
Body2 == << "\n", "x", ".", "i", "o" >>

RemoteBodies == {Body1, Body2}

\* how the remote source answers: "ok" 200 and the whole body; "neterr" no
\* response (connection error); "status" a response with another status;
\* "readerr" 200 and a body that fails while it is read; "hang" a
\* connection that stays open and never gets an answer
RemoteModes == {"ok", "neterr", "status", "readerr", "hang"}

NoEmail == << >>
EmailLower == << "a", "@", "m", ".", "i", "o" >>
EmailUpper == << "a", "@", "M", ".", "I", "O" >>
EmailCap == << "a", "@", "t", ".", "i", "o" >>
EmailNoAt == << "a", "m", ".", "i", "o" >>
EmailTwoAt == << "a", "@", "a", "@", "m", ".", "i", "o" >>

Emails == {EmailLower, EmailUpper, EmailCap, EmailNoAt, EmailTwoAt}

Methods == {"GET", "POST", "PUT"}

\* HTTP status codes the handlers answer with
StatusOK == 200
StatusBadRequest == 400
StatusForbidden == 403
StatusMethodNotAllowed == 405
StatusInternalServerError == 500
\* resp.StatusCode of the remote source's response (there is a response in
\* every mode but "neterr")
RemoteStatus(mode) == IF mode = "status" THEN 404 ELSE StatusOK

-----------------------------------------------------------------------------
(* The remote source and the clock: the environment of every program *)

\* time.Now() at process start: far from the zero time
StartTime == 5

Advance ==
    /\ prog = "ext"
    /\ now < StartTime + MaxTime
    /\ now' = now + 1
    /\ UNCHANGED << prog, remoteMode, remoteBody, log, extVars, notExt >>

RemoteChange ==
    /\ prog \in {"ext", "main1", "dbl", "proxy"}
    /\ \E m \in RemoteModes, b \in RemoteBodies :
          /\ << m, b >> # << remoteMode, remoteBody >>
          /\ remoteMode' = m
          /\ remoteBody' = b
    /\ UNCHANGED << prog, now, log, extVars, notExt >>

-----------------------------------------------------------------------------
(* ExternalDisposableChecker (src/unnamed/part_001) *)

ExtCallers == {"main", "ticker"}

\* a caller that is not inside LoadDisposableDomains
IdleLoad == [pc |-> "idle", lines |-> << >>, newDomains |-> {}, scanErr |-> FALSE]

\* NewExternalDisposableChecker with the bug of a map that is not empty
NewExternalDisposableCheckerSeeded ==
    [disposableDomains |-> {<< "m", ".", "i", "o" >>}, lastUpdated |-> 0]

\* NewExternalDisposableChecker: an empty map, the zero time
NewExternalDisposableChecker == [disposableDomains |-> {}, lastUpdated |-> 0]

\* the body of the scanner loop on one line (part_001:46-49)
ExtScanStep(newDomains, line) ==
    LET domain == TrimSpace(line)
    IN  IF domain # << >> /\ ~HasPrefix(domain, Comment)
        THEN newDomains \cup {ToLower(domain)}
        ELSE newDomains

\* the whole scanner loop (part_001:45-50)
RECURSIVE ExtScanAll(_, _)
ExtScanAll(newDomains, lines) ==
    IF lines = << >> THEN newDomains
    ELSE ExtScanAll(ExtScanStep(newDomains, Head(lines)), Tail(lines))

\* what the caller of LoadDisposableDomains does with its result
\* (main.go:138-142 at startup, main.go:150-154 in the ticker goroutine)
ExtReturn(k, failed) ==
    /\ ext_ld' = [ext_ld EXCEPT ![k] = IdleLoad]
    /\ ext_pc' = IF k = "main" THEN "serving" ELSE ext_pc
    /\ log' = log

\* main.go:137-138: main calls LoadDisposableDomains before anything else
ExtStartupLoad ==
    /\ prog = "ext"
    /\ ext_pc = "startup"
    /\ ext_pc' = "loading"
    /\ ext_ld' = [ext_ld EXCEPT !["main"].pc = "get"]
    /\ UNCHANGED << prog, notExt, now, remoteMode, remoteBody, log,
                    c_disposableDomains, c_lastUpdated, c_mu, tickPending, ext_req >>

\* main.go:146: the ticker puts a tick in its channel of capacity 1; a tick
\* that finds the channel full is dropped
ExtTick ==
    /\ prog = "ext"
    /\ ext_pc = "serving"
    /\ tickPending' = TRUE
    /\ UNCHANGED << prog, notExt, now, remoteMode, remoteBody, log,
                    c_disposableDomains, c_lastUpdated, c_mu, ext_pc, ext_ld, ext_req >>

\* main.go:148-150: the goroutine takes a tick and calls LoadDisposableDomains
ExtTickerRecv ==
    /\ prog = "ext"
    /\ ext_pc = "serving"
    /\ tickPending
    /\ ext_ld["ticker"].pc = "idle"
    /\ tickPending' = FALSE
    /\ ext_ld' = [ext_ld EXCEPT !["ticker"].pc = "get"]
    /\ log' = log
    /\ UNCHANGED << prog, notExt, now, remoteMode, remoteBody,
                    c_disposableDomains, c_lastUpdated, c_mu, ext_pc, ext_req >>

\* part_001:32-43: client.Get returns, after the client's Timeout of 10 s
\* at the latest; an error or a status other than 200 ends the call,
\* otherwise the scanner is set up on the body
ExtFetchReturn(k) ==
    /\ prog = "ext"
    /\ ext_pc # "exited"
    /\ ext_ld[k].pc = "get"
    /\ IF remoteMode \in {"neterr", "hang"} \/ RemoteStatus(remoteMode) # StatusOK
       THEN ExtReturn(k, TRUE)
       ELSE /\ \E n \in 0..Len(ScanLines(remoteBody)) :
                 /\ remoteMode = "ok" => n = Len(ScanLines(remoteBody))
                 /\ remoteMode = "readerr" => n < Len(ScanLines(remoteBody))
                 /\ ext_ld' = [ext_ld EXCEPT
                       ![k].pc = "scan",
                       ![k].lines = SubSeq(ScanLines(remoteBody), 1, n),
                       ![k].scanErr = (remoteMode = "readerr")]
            /\ UNCHANGED << ext_pc, log >>
    /\ UNCHANGED << prog, notExt, now, remoteMode, remoteBody,
                    c_disposableDomains, c_lastUpdated, c_mu, tickPending, ext_req >>

\* ExtScan with the bug of filling the live map instead of a new one
ExtScanInPlace(k) ==
    /\ prog = "ext"
    /\ ext_pc # "exited"
    /\ ext_ld[k].pc = "scan"
    /\ ext_ld[k].lines # << >>
    /\ ext_ld' = [ext_ld EXCEPT
          ![k].newDomains = ExtScanStep(ext_ld[k].newDomains, Head(ext_ld[k].lines)),
          ![k].lines = Tail(ext_ld[k].lines)]
    /\ c_disposableDomains' = ExtScanStep(c_disposableDomains, Head(ext_ld[k].lines))
    /\ UNCHANGED << prog, notExt, now, remoteMode, remoteBody, log,
                    c_lastUpdated, c_mu, ext_pc, tickPending, ext_req >>

\* part_001:45-50: one turn of the scanner loop
ExtScan(k) ==
    /\ prog = "ext"
    /\ ext_pc # "exited"
    /\ ext_ld[k].pc = "scan"
    /\ ext_ld[k].lines # << >>
    /\ ext_ld' = [ext_ld EXCEPT
          ![k].newDomains = ExtScanStep(ext_ld[k].newDomains, Head(ext_ld[k].lines)),
          ![k].lines = Tail(ext_ld[k].lines)]
    /\ UNCHANGED << prog, notExt, now, remoteMode, remoteBody, log,
                    c_disposableDomains, c_lastUpdated, c_mu, ext_pc,
                    tickPending, ext_req >>

\* part_001:52-54: the scanner stopped on a read error
ExtScanErr(k) ==
    /\ prog = "ext"
    /\ ext_pc # "exited"
    /\ ext_ld[k].pc = "scan"
    /\ ext_ld[k].lines = << >>
    /\ ext_ld[k].scanErr
    /\ ExtReturn(k, TRUE)
    /\ UNCHANGED << prog, notExt, now, remoteMode, remoteBody,
                    c_disposableDomains, c_lastUpdated, c_mu, tickPending, ext_req >>

\* part_001:56: c.mu.Lock() after a complete scan
ExtLock(k) ==
    /\ prog = "ext"
    /\ ext_pc # "exited"
    /\ ext_ld[k].pc = "scan"
    /\ ext_ld[k].lines = << >>
    /\ ~ext_ld[k].scanErr
    /\ c_mu = "free"
    /\ c_mu' = k
    /\ ext_ld' = [ext_ld EXCEPT ![k].pc = "set"]
    /\ UNCHANGED << prog, notExt, now, remoteMode, remoteBody, log,
                    c_disposableDomains, c_lastUpdated, ext_pc, tickPending, ext_req >>

\* part_001:57: c.disposableDomains = newDomains
ExtSetDomains(k) ==
    /\ prog = "ext"
    /\ ext_pc # "exited"
    /\ ext_ld[k].pc = "set"
    /\ c_disposableDomains' = ext_ld[k].newDomains
    /\ ext_ld' = [ext_ld EXCEPT ![k].pc = "stamp"]
    /\ UNCHANGED << prog, notExt, now, remoteMode, remoteBody, log,
                    c_lastUpdated, c_mu, ext_pc, tickPending, ext_req >>

\* part_001:58: c.lastUpdated = time.Now()
ExtSetLastUpdated(k) ==
    /\ prog = "ext"
    /\ ext_pc # "exited"
    /\ ext_ld[k].pc = "stamp"
    /\ c_lastUpdated' = now
    /\ ext_ld' = [ext_ld EXCEPT ![k].pc = "unlock"]
    /\ UNCHANGED << prog, notExt, now, remoteMode, remoteBody, log,
                    c_disposableDomains, c_mu, ext_pc, tickPending, ext_req >>

\* part_001:59-61: c.mu.Unlock(); return nil
ExtUnlock(k) ==
    /\ prog = "ext"
    /\ ext_pc # "exited"
    /\ ext_ld[k].pc = "unlock"
    /\ c_mu' = "free"
    /\ ExtReturn(k, FALSE)
    /\ UNCHANGED << prog, notExt, now, remoteMode, remoteBody,
                    c_disposableDomains, c_lastUpdated, tickPending, ext_req >>

\* main.go:178-181: http.ListenAndServe returns (it only returns an error)
\* and log.Fatalf ends the process, whatever the ticker goroutine is doing;
\* the goroutines of a process that has ended take no further step
ExtListenFails ==
    /\ prog = "ext"
    /\ ext_pc = "serving"
    /\ ext_pc' = "exited"
    /\ UNCHANGED << prog, notExt, now, remoteMode, remoteBody, log,
                    c_disposableDomains, c_lastUpdated, c_mu, ext_ld,
                    tickPending, ext_req >>

\* part_001:65-70: IsDisposable, for a caller that holds the read lock
ExtIsDisposable(domain) == ToLower(domain) \in c_disposableDomains

-----------------------------------------------------------------------------
(* NewCheckExternalDisposableHandler (disposable_blocklist.go:362-423) *)

LocalChars == LowerLetters \cup UpperLetters \cup {".", "_", "%", "+", "-"}
DomainChars == LowerLetters \cup UpperLetters \cup {".", "-"}

\* emailRegex: ^[a-zA-Z0-9._%+-]+@[a-zA-Z0-9.-]+\.[a-zA-Z]{2,}$
MatchEmailRegex(s) ==
    \E i \in 2..Len(s) :
      /\ s[i] = "@"
      /\ \A j \in 1..(i - 1) : s[j] \in LocalChars
      /\ \E d \in (i + 2)..Len(s) :
            /\ s[d] = "."
            /\ \A j \in (i + 1)..(d - 1) : s[j] \in DomainChars
            /\ Len(s) - d >= 2
            /\ \A j \in (d + 1)..Len(s) : s[j] \in LowerLetters \cup UpperLetters

\* what a request carries: its method, whether its JSON body decodes, and
\* the address in the body (the empty text when the body has none)
\* A request with another method than GET or POST carries no address here,
\* and an address that is not well formed comes by POST only.
RequestInputs ==
    {in \in [method : Methods, decodes : BOOLEAN, email : Emails \cup {NoEmail}] :
        /\ ~in.decodes => in.email = NoEmail /\ in.method = "POST"
        /\ in.method = "PUT" => in.email = NoEmail
        /\ in.method = "GET" => in.email \in {NoEmail, EmailLower, EmailUpper}}

NoRequest == [code |-> 0]

\* the response of the handler to one request, for a caller that holds
\* the read lock when the checker is consulted
ExtHandlerResponse(in) ==
    IF in.method # "POST"
    THEN [code |-> StatusMethodNotAllowed, lookedUp |-> FALSE, isDisposable |-> FALSE]
    ELSE IF ~in.decodes
    THEN [code |-> StatusBadRequest, lookedUp |-> FALSE, isDisposable |-> FALSE]
    ELSE IF in.email = NoEmail
    THEN [code |-> StatusBadRequest, lookedUp |-> FALSE, isDisposable |-> FALSE]
    ELSE IF ~MatchEmailRegex(in.email)
    THEN [code |-> StatusBadRequest, lookedUp |-> FALSE, isDisposable |-> FALSE]
    ELSE IF Len(Split(in.email, "@")) # 2
    THEN [code |-> StatusBadRequest, lookedUp |-> FALSE, isDisposable |-> FALSE]
    ELSE [code |-> StatusOK, lookedUp |-> TRUE,
          isDisposable |-> ExtIsDisposable(Split(in.email, "@")[2])]

\* one request to /api/check-disposable (main.go:166), served once main is
\* in http.ListenAndServe; the handler never calls the validation service
ExtHandle ==
    /\ prog = "ext"
    /\ ext_pc = "serving"
    /\ \E in \in RequestInputs :
          LET out == ExtHandlerResponse(in)
          IN  /\ out.lookedUp => c_mu = "free"
              /\ ext_req' = [method |-> in.method, decodes |-> in.decodes,
                             email |-> in.email, code |-> out.code,
                             lookedUp |-> out.lookedUp,
                             isDisposable |-> out.isDisposable,
                             validations |-> 0]
    /\ UNCHANGED << prog, notExt, now, remoteMode, remoteBody, log,
                    c_disposableDomains, c_lastUpdated, c_mu, ext_pc, ext_ld,
                    tickPending >>

-----------------------------------------------------------------------------
(* DisposableBlocklist (disposable_blocklist.go:1-85) *)

\* "main" is main.go:69; "c1" and "c2" are the callers of the program "dbl"
DbCallers == {"main", "c1", "c2"}
Clients == {"c1", "c2"}

QueryDomains == {<< "m", ".", "i", "o" >>, << "M", ".", "I", "O" >>,
                 << "t", ".", "i", "o" >>, << "#", "x" >>}

\* a caller that is in no call; result is what its last call returned
\* ("none", "nil", "err", TRUE, FALSE)
IdleCall == [pc |-> "idle", op |-> "none", domain |-> << >>, lines |-> << >>,
             newDomains |-> {}, scanErr |-> FALSE, result |-> "none"]

\* NewDisposableBlocklist: an empty map
NewDisposableBlocklist == [domains |-> {}]

\* DbScanStep with the bug of keeping the comment lines
DbScanStepKeepsComments(newDomains, line) ==
    LET domain == TrimSpace(line)
    IN  IF domain # << >>
        THEN newDomains \cup {domain}
        ELSE newDomains

\* the body of the scanner loop on one line (disposable_blocklist.go:53-56)
DbScanStep(newDomains, line) ==
    LET domain == TrimSpace(line)
    IN  IF domain # << >> /\ ~HasPrefix(domain, Comment)
        THEN newDomains \cup {domain}
        ELSE newDomains

\* the whole scanner loop (disposable_blocklist.go:52-57)
RECURSIVE DbScanAll(_, _)
DbScanAll(newDomains, lines) ==
    IF lines = << >> THEN newDomains
    ELSE DbScanAll(DbScanStep(newDomains, Head(lines)), Tail(lines))

\* the lookup of IsDisposable (disposable_blocklist.go:81-84)
DbLookupResult(domain) == ToLower(domain) \in db_domains

\* Load returns to caller k (failed: with an error). Load called by
\* IsDisposable (disposable_blocklist.go:76-79) ends the call with false and
\* a warning on an error and goes on to the lookup otherwise; Load called by
\* main (main.go:69-71) ends the process on an error.
DbLoadReturns(k, failed) ==
    /\ db_ld' = [db_ld EXCEPT ![k] =
         IF db_ld[k].op = "IsDisposable" /\ ~failed
         THEN [IdleCall EXCEPT !.pc = "lookup", !.op = "IsDisposable",
                               !.domain = db_ld[k].domain]
         ELSE [IdleCall EXCEPT !.op = db_ld[k].op, !.domain = db_ld[k].domain,
                 !.result = IF db_ld[k].op = "IsDisposable" THEN FALSE
                            ELSE IF failed THEN "err" ELSE "nil"]]
    /\ m1_pc' = IF k # "main" THEN m1_pc
                ELSE IF failed THEN "exited" ELSE "serving"

\* the log lines of Load and IsDisposable when Load returns to k
DbLogged(k, failed, ran) ==
    log \cup (IF ran /\ failed THEN {"load_error"} ELSE {})
        \cup (IF ran /\ ~failed THEN {"loaded"} ELSE {})
        \cup (IF failed /\ db_ld[k].op = "IsDisposable" THEN {"not_loaded_warning"} ELSE {})

\* DbEnterOnce with the bug of a once that lets a caller through while f
\* is still running in another caller
DbEnterNoWait(k, op, domain) ==
    /\ db_ld[k].pc = "idle"
    /\ IF db_once = "new"
       THEN /\ db_once' = "running"
            /\ db_ld' = [db_ld EXCEPT ![k] =
                 [IdleCall EXCEPT !.pc = "get", !.op = op, !.domain = domain]]
       ELSE /\ db_ld' = [db_ld EXCEPT ![k] =
                 IF op = "IsDisposable"
                 THEN [IdleCall EXCEPT !.pc = "lookup", !.op = op, !.domain = domain]
                 ELSE [IdleCall EXCEPT !.op = op, !.result = "nil"]]
            /\ UNCHANGED db_once

\* DbEnterOnce with the bug of a once that runs f again when f has returned
DbEnterAgain(k, op, domain) ==
    /\ db_ld[k].pc = "idle"
    /\ IF db_once = "running"
       THEN /\ db_ld' = [db_ld EXCEPT ![k] =
                 [IdleCall EXCEPT !.pc = "wait", !.op = op, !.domain = domain]]
            /\ UNCHANGED db_once
       ELSE /\ db_once' = "running"
            /\ db_ld' = [db_ld EXCEPT ![k] =
                 [IdleCall EXCEPT !.pc = "get", !.op = op, !.domain = domain]]

\* db.once.Do(f) (disposable_blocklist.go:33): the first caller runs f, a
\* caller that comes while f runs waits for it, a later caller returns at once
DbEnterOnce(k, op, domain) ==
    /\ db_ld[k].pc = "idle"
    /\ IF db_once = "new"
       THEN /\ db_once' = "running"
            /\ db_ld' = [db_ld EXCEPT ![k] =
                 [IdleCall EXCEPT !.pc = "get", !.op = op, !.domain = domain]]
       ELSE IF db_once = "running"
       THEN /\ db_ld' = [db_ld EXCEPT ![k] =
                 [IdleCall EXCEPT !.pc = "wait", !.op = op, !.domain = domain]]
            /\ UNCHANGED db_once
       ELSE /\ db_ld' = [db_ld EXCEPT ![k] =
                 IF op = "IsDisposable"
                 THEN [IdleCall EXCEPT !.pc = "lookup", !.op = op, !.domain = domain]
                 ELSE [IdleCall EXCEPT !.op = op, !.result = "nil"]]
            /\ UNCHANGED db_once

\* main.go:68-69: main calls Load before it registers any handler
M1StartupLoad ==
    /\ prog = "main1"
    /\ m1_pc = "startup"
    /\ DbEnterOnce("main", "Load", << >>)
    /\ m1_pc' = "loading"
    /\ UNCHANGED << prog, notDb, now, remoteMode, remoteBody, log,
                    db_domains, db_mu, m1_req >>

\* a caller of the program "dbl" calls Load or IsDisposable
DblCall(k) ==
    /\ prog = "dbl"
    /\ \E op \in {"Load", "IsDisposable"}, d \in QueryDomains \cup {<< >>} :
          /\ op = "Load" <=> d = << >>
          /\ DbEnterOnce(k, op, d)
    /\ UNCHANGED << prog, notDb, now, remoteMode, remoteBody, log,
                    db_domains, db_mu, m1_pc, m1_req >>

\* DbWaitDone with the bug of an error that is kept in the blocklist and
\* returned to the callers that waited
DbWaitDoneSharesError(k) ==
    /\ prog \in {"main1", "dbl"}
    /\ db_ld[k].pc = "wait"
    /\ db_once = "done"
    /\ DbLoadReturns(k, "load_error" \in log)
    /\ log' = DbLogged(k, "load_error" \in log, FALSE)
    /\ UNCHANGED << prog, notDb, now, remoteMode, remoteBody,
                    db_domains, db_once, db_mu, m1_req >>

\* a caller that waited in once.Do goes on when f has returned: its own err
\* is nil (disposable_blocklist.go:32, 70)
DbWaitDone(k) ==
    /\ prog \in {"main1", "dbl"}
    /\ db_ld[k].pc = "wait"
    /\ db_once = "done"
    /\ DbLoadReturns(k, FALSE)
    /\ log' = DbLogged(k, FALSE, FALSE)
    /\ UNCHANGED << prog, notDb, now, remoteMode, remoteBody,
                    db_domains, db_once, db_mu, m1_req >>

\* disposable_blocklist.go:35-50: client.Get returns, after the client's
\* Timeout of 10 s at the latest; an error or a status other than 200 ends
\* f and the call with the error
DbFetchReturn(k) ==
    /\ prog \in {"main1", "dbl"}
    /\ db_ld[k].pc = "get"
    /\ IF remoteMode \in {"neterr", "hang"} \/ RemoteStatus(remoteMode) # StatusOK
       THEN /\ db_once' = "done"
            /\ DbLoadReturns(k, TRUE)
            /\ log' = DbLogged(k, TRUE, TRUE)
       ELSE /\ \E n \in 0..Len(ScanLines(remoteBody)) :
                 /\ remoteMode = "ok" => n = Len(ScanLines(remoteBody))
                 /\ remoteMode = "readerr" => n < Len(ScanLines(remoteBody))
                 /\ db_ld' = [db_ld EXCEPT
                       ![k].pc = "scan",
                       ![k].lines = SubSeq(ScanLines(remoteBody), 1, n),
                       ![k].scanErr = (remoteMode = "readerr")]
            /\ UNCHANGED << db_once, m1_pc, log >>
    /\ UNCHANGED << prog, notDb, now, remoteMode, remoteBody,
                    db_domains, db_mu, m1_req >>

\* disposable_blocklist.go:52-57: one turn of the scanner loop
DbScan(k) ==
    /\ prog \in {"main1", "dbl"}
    /\ db_ld[k].pc = "scan"
    /\ db_ld[k].lines # << >>
    /\ db_ld' = [db_ld EXCEPT
          ![k].newDomains = DbScanStep(db_ld[k].newDomains, Head(db_ld[k].lines)),
          ![k].lines = Tail(db_ld[k].lines)]
    /\ UNCHANGED << prog, notDb, now, remoteMode, remoteBody, log,
                    db_domains, db_once, db_mu, m1_pc, m1_req >>

\* disposable_blocklist.go:59-63: the scanner stopped on a read error
DbScanErr(k) ==
    /\ prog \in {"main1", "dbl"}
    /\ db_ld[k].pc = "scan"
    /\ db_ld[k].lines = << >>
    /\ db_ld[k].scanErr
    /\ db_once' = "done"
    /\ DbLoadReturns(k, TRUE)
    /\ log' = DbLogged(k, TRUE, TRUE)
    /\ UNCHANGED << prog, notDb, now, remoteMode, remoteBody,
                    db_domains, db_mu, m1_req >>

\* disposable_blocklist.go:65: db.mu.Lock() after a complete scan
DbLock(k) ==
    /\ prog \in {"main1", "dbl"}
    /\ db_ld[k].pc = "scan"
    /\ db_ld[k].lines = << >>
    /\ ~db_ld[k].scanErr
    /\ db_mu = "free"
    /\ db_mu' = k
    /\ db_ld' = [db_ld EXCEPT ![k].pc = "set"]
    /\ UNCHANGED << prog, notDb, now, remoteMode, remoteBody, log,
                    db_domains, db_once, m1_pc, m1_req >>

\* disposable_blocklist.go:66: db.domains = newDomains
DbSetDomains(k) ==
    /\ prog \in {"main1", "dbl"}
    /\ db_ld[k].pc = "set"
    /\ db_domains' = db_ld[k].newDomains
    /\ db_ld' = [db_ld EXCEPT ![k].pc = "unlock"]
    /\ UNCHANGED << prog, notDb, now, remoteMode, remoteBody, log,
                    db_once, db_mu, m1_pc, m1_req >>

\* disposable_blocklist.go:67-70: db.mu.Unlock(), the log line, the end of
\* f and of once.Do, return nil
DbUnlock(k) ==
    /\ prog \in {"main1", "dbl"}
    /\ db_ld[k].pc = "unlock"
    /\ db_mu' = "free"
    /\ db_once' = "done"
    /\ DbLoadReturns(k, FALSE)
    /\ log' = DbLogged(k, FALSE, TRUE)
    /\ UNCHANGED << prog, notDb, now, remoteMode, remoteBody,
                    db_domains, m1_req >>

\* disposable_blocklist.go:81-84: the lookup under the read lock
DbLookup(k) ==
    /\ prog \in {"main1", "dbl"}
    /\ db_ld[k].pc = "lookup"
    /\ db_mu = "free"
    /\ db_ld' = [db_ld EXCEPT ![k].pc = "idle",
                              ![k].result = DbLookupResult(db_ld[k].domain)]
    /\ UNCHANGED << prog, notDb, now, remoteMode, remoteBody, log,
                    db_domains, db_once, db_mu, m1_pc, m1_req >>

-----------------------------------------------------------------------------
(* DisposableCheckHandler (disposable_blocklist.go:102-184) *)

\* model.ValidationStatus: the verdicts of the validation pipeline
ValidationStatuses == {"VALID", "PROBABLY_VALID", "INVALID_DOMAIN", "DISPOSABLE"}
ValidationStatusValid == "VALID"
ValidationStatusDisposable == "DISPOSABLE"

\* what emailService.ValidateEmail returns: an error, or a result with its
\* status and its Validations.IsDisposable flag
PipelineResults ==
    [failed : {FALSE}, status : ValidationStatuses, isDisposable : BOOLEAN]
      \cup {[failed |-> TRUE, status |-> "none", isDisposable |-> FALSE]}

\* extractDomain (disposable_blocklist.go:178-184)
extractDomain(email) ==
    LET parts == Split(email, "@")
    IN  IF Len(parts) # 2 THEN << >> ELSE parts[2]

Rejected(code) ==
    [code |-> code, validations |-> 0, lookedUp |-> FALSE, pipeline |-> "none",
     pipelineIsDisposable |-> FALSE, status |-> "none", isDisposable |-> FALSE]

\* DisposableCheckResponse with the bug of consulting the blocklist whatever
\* the status of the validation service is
DisposableCheckResponseAnyStatus(in, res) ==
    IF in.method \notin {"GET", "POST"} THEN Rejected(StatusMethodNotAllowed)
    ELSE IF in.method = "POST" /\ ~in.decodes THEN Rejected(StatusBadRequest)
    ELSE IF in.email = NoEmail THEN Rejected(StatusBadRequest)
    ELSE IF res.failed
    THEN [Rejected(StatusInternalServerError) EXCEPT !.validations = 1,
                                                      !.pipeline = "error"]
    ELSE LET domain == extractDomain(in.email)
             looks == domain # << >>
             found == looks /\ DbLookupResult(domain)
         IN  [code |-> StatusOK, validations |-> 1, lookedUp |-> looks,
              pipeline |-> res.status, pipelineIsDisposable |-> res.isDisposable,
              status |-> IF found THEN ValidationStatusDisposable ELSE res.status,
              isDisposable |-> IF found THEN TRUE ELSE res.isDisposable]

\* ServeHTTP on one request whose call of the validation service returns res
\* (disposable_blocklist.go:117-175); the blocklist has been loaded
DisposableCheckResponse(in, res) ==
    IF in.method \notin {"GET", "POST"} THEN Rejected(StatusMethodNotAllowed)
    ELSE IF in.method = "POST" /\ ~in.decodes THEN Rejected(StatusBadRequest)
    ELSE IF in.email = NoEmail THEN Rejected(StatusBadRequest)
    ELSE IF res.failed
    THEN [Rejected(StatusInternalServerError) EXCEPT !.validations = 1,
                                                      !.pipeline = "error"]
    ELSE LET domain == extractDomain(in.email)
             looks == res.status = ValidationStatusValid /\ domain # << >>
             found == looks /\ DbLookupResult(domain)
         IN  [code |-> StatusOK, validations |-> 1, lookedUp |-> looks,
              pipeline |-> res.status, pipelineIsDisposable |-> res.isDisposable,
              status |-> IF found THEN ValidationStatusDisposable ELSE res.status,
              isDisposable |-> IF found THEN TRUE ELSE res.isDisposable]

\* one request to the handler main.go:81 registers, served once main is past
\* the startup load; IsDisposable finds once.Do done and the lock free
M1Handle ==
    /\ prog = "main1"
    /\ m1_pc = "serving"
    /\ db_once = "done"
    /\ db_mu = "free"
    /\ \E in \in RequestInputs, res \in PipelineResults :
          LET out == DisposableCheckResponse(in, res)
          IN  /\ out.validations = 0 => res = CHOOSE r \in PipelineResults : r.failed
              /\ m1_req' = [method |-> in.method, decodes |-> in.decodes,
                            email |-> in.email, code |-> out.code,
                            validations |-> out.validations,
                            lookedUp |-> out.lookedUp, pipeline |-> out.pipeline,
                            pipelineIsDisposable |-> out.pipelineIsDisposable,
                            status |-> out.status,
                            isDisposable |-> out.isDisposable]
    /\ UNCHANGED << prog, notDb, now, remoteMode, remoteBody, log,
                    db_domains, db_once, db_mu, db_ld, m1_pc >>

-----------------------------------------------------------------------------
(* Handler (disposable_blocklist.go:185-348) *)

Endpoints == {"/validate", "/validate/batch", "/typo-suggestions"}

\* the addresses a request carries: the values of its query parameter
\* "email", or the address (the list of addresses) of its JSON body
AddressLists == {<< >>, << NoEmail >>, << EmailLower >>, << EmailNoAt >>,
                 << EmailLower, NoEmail >>}

ApiInputs ==
    {in \in [endpoint : Endpoints, method : Methods, decodes : BOOLEAN,
             emails : AddressLists] :
        /\ ~in.decodes => in.emails = << >> /\ in.method = "POST"
        /\ in.method = "PUT" => in.emails = << >>}

\* r.URL.Query().Get("email"), and the Email field of a decoded body
FirstAddress(emails) == IF emails = << >> THEN NoEmail ELSE emails[1]

ApiRejected(code) == [code |-> code, calls |-> 0, arg |-> << >>]

\* HandleValidate (disposable_blocklist.go:229-256) and
\* HandleTypoSuggestions (disposable_blocklist.go:289-316)
HandleSingle(in) ==
    IF in.method = "GET"
    THEN IF FirstAddress(in.emails) = NoEmail
         THEN ApiRejected(StatusBadRequest)
         ELSE [code |-> StatusOK, calls |-> 1, arg |-> << FirstAddress(in.emails) >>]
    ELSE IF in.method = "POST"
    THEN IF ~in.decodes
         THEN ApiRejected(StatusBadRequest)
         ELSE [code |-> StatusOK, calls |-> 1, arg |-> << FirstAddress(in.emails) >>]
    ELSE ApiRejected(StatusMethodNotAllowed)

\* HandleBatchValidate (disposable_blocklist.go:259-286)
HandleBatch(in) ==
    IF in.method = "GET"
    THEN IF Len(in.emails) = 0
         THEN ApiRejected(StatusBadRequest)
         ELSE [code |-> StatusOK, calls |-> 1, arg |-> in.emails]
    ELSE IF in.method = "POST"
    THEN IF ~in.decodes
         THEN ApiRejected(StatusBadRequest)
         ELSE [code |-> StatusOK, calls |-> 1, arg |-> in.emails]
    ELSE ApiRejected(StatusMethodNotAllowed)

\* one request to a route of RegisterRoutes (disposable_blocklist.go:210-216)
ApiHandle ==
    /\ prog = "api"
    /\ \E in \in ApiInputs :
          LET out == IF in.endpoint = "/validate/batch"
                     THEN HandleBatch(in) ELSE HandleSingle(in)
          IN  api_req' = [endpoint |-> in.endpoint, method |-> in.method,
                          decodes |-> in.decodes, emails |-> in.emails,
                          code |-> out.code, calls |-> out.calls, arg |-> out.arg]
    /\ UNCHANGED << prog, now, remoteMode, remoteBody, log, extVars, dbVars,
                    pxVars >>

-----------------------------------------------------------------------------
(* The proxy (src/proxy-validator-service/server.js) *)

\* REFRESH_INTERVAL_HOURS (server.js:13), from the environment
REFRESH_INTERVAL_HOURS == 2

\* the keys a request may carry in its header x-api-key or its query
\* parameter api_key; the empty text is a missing key
NoKey == << >>
GoodKey == << "k" >>
BadKey == << "x" >>

\* formatTimestamp (server.js:20-48) on a time in hours: the day, the hour
\* on a 12-hour clock and AM or PM (the minutes of a whole hour are 00)
formatTimestamp(timestamp) ==
    IF timestamp = 0
    THEN [text |-> "Not yet refreshed"]
    ELSE LET hours == (timestamp % 24) % 12
         IN  [day |-> timestamp \div 24,
              hours |-> IF hours = 0 THEN 12 ELSE hours,
              ampm |-> IF timestamp % 24 >= 12 THEN "PM" ELSE "AM"]

\* server.js:56: the lines of the text, trimmed, without the empty lines
\* and the comments
JsParse(text) ==
    {d \in {TrimSpace(l) : l \in Range(Split(text, "\n"))} :
        Len(d) > 0 /\ ~HasPrefix(d, Comment)}

\* getDomainFromEmail with the bug of a domain that keeps its letter case
getDomainFromEmailKeepsCase(email) ==
    LET parts == Split(email, "@")
    IN  IF Len(parts) = 2 THEN parts[2] ELSE << >>

\* getDomainFromEmail (server.js:93-99); the empty text stands for null
getDomainFromEmail(email) ==
    LET parts == Split(email, "@")
    IN  IF Len(parts) = 2 THEN ToLower(parts[2]) ELSE << >>

\* PxHourlyCheck with the bug of a refresh that is due only after more
\* than the interval
PxHourlyCheckLate ==
    /\ prog = "proxy"
    /\ now' = IF now < StartTime + MaxTime + 1 THEN now + 1 ELSE now
    /\ LET timeSinceLastLoad == now' - lastLoadedTimestamp
           refreshThreshold == REFRESH_INTERVAL_HOURS
       IN  IF timeSinceLastLoad > refreshThreshold
           THEN /\ px_loads < MaxLoads
                /\ px_loads' = px_loads + 1
           ELSE UNCHANGED px_loads
    /\ UNCHANGED << prog, notPx, remoteMode, remoteBody,
                    disposableDomains, lastLoadedTimestamp, API_KEYS, px_last,
                    px_req >>

\* server.js:72-81: the hourly callback of setInterval. The clock moves by
\* the hour with it (and stays at its bound); a refresh that is due starts
\* a call of loadDisposableDomains, which the callback does not wait for.
PxHourlyCheck ==
    /\ prog = "proxy"
    /\ now' = IF now < StartTime + MaxTime + 1 THEN now + 1 ELSE now
    /\ LET timeSinceLastLoad == now' - lastLoadedTimestamp
           refreshThreshold == REFRESH_INTERVAL_HOURS
       IN  IF timeSinceLastLoad >= refreshThreshold
           THEN /\ px_loads < MaxLoads
                /\ px_loads' = px_loads + 1
           ELSE UNCHANGED px_loads
    /\ UNCHANGED << prog, notPx, remoteMode, remoteBody,
                    disposableDomains, lastLoadedTimestamp, API_KEYS, px_last,
                    px_req >>

\* PxLoadSettles with the bug of a timestamp that is set when the load fails
PxLoadSettlesStampsFailure ==
    /\ prog = "proxy"
    /\ px_loads > 0
    /\ remoteMode # "hang"
    /\ px_loads' = px_loads - 1
    /\ lastLoadedTimestamp' = now
    /\ IF remoteMode = "ok"
       THEN /\ disposableDomains' = JsParse(remoteBody)
            /\ px_last' = "loaded"
       ELSE /\ px_last' = "failed"
            /\ UNCHANGED disposableDomains
    /\ UNCHANGED << prog, notPx, now, remoteMode, remoteBody, API_KEYS, px_req >>

\* PxLoadSettles with the bug of a catch block that empties the set
PxLoadSettlesClears ==
    /\ prog = "proxy"
    /\ px_loads > 0
    /\ remoteMode # "hang"
    /\ px_loads' = px_loads - 1
    /\ IF remoteMode = "ok"
       THEN /\ disposableDomains' = JsParse(remoteBody)
            /\ lastLoadedTimestamp' = now
            /\ px_last' = "loaded"
       ELSE /\ px_last' = "failed"
            /\ disposableDomains' = {}
            /\ UNCHANGED lastLoadedTimestamp
    /\ UNCHANGED << prog, notPx, now, remoteMode, remoteBody, API_KEYS, px_req >>

\* server.js:54-65: axios.get of one waiting call settles and the call runs
\* to its end: the set and the timestamp are replaced, or the catch block
\* runs (no response, a status outside 2xx, or a body that is no text).
\* The call is made with no timeout, so it settles only when the remote
\* source answers or the connection ends.
PxLoadSettles ==
    /\ prog = "proxy"
    /\ px_loads > 0
    /\ remoteMode # "hang"
    /\ px_loads' = px_loads - 1
    /\ IF remoteMode = "ok"
       THEN /\ disposableDomains' = JsParse(remoteBody)
            /\ lastLoadedTimestamp' = now
            /\ px_last' = "loaded"
       ELSE /\ px_last' = "failed"
            /\ UNCHANGED << disposableDomains, lastLoadedTimestamp >>
    /\ UNCHANGED << prog, notPx, now, remoteMode, remoteBody, API_KEYS, px_req >>

PxNoResponse ==
    [code |-> 0, upstream |-> "none", finalStatus |-> "none",
     isDisposableByExternalBlocklist |-> FALSE,
     lastRefreshed |-> formatTimestamp(0), RESULT |-> FALSE, lookedUp |-> FALSE]

\* A request without the good key carries the lower-case address or none,
\* and the good key comes only when keys are configured.
PxInputs ==
    {in \in [header : {NoKey, GoodKey, BadKey}, query : {NoKey, GoodKey},
             email : {NoEmail, EmailLower, EmailUpper, EmailCap, EmailNoAt}] :
        /\ in.header = GoodKey => in.query = NoKey
        /\ (in.header = GoodKey \/ in.query = GoodKey) => API_KEYS # << >>
        /\ (in.header = BadKey /\ in.query = NoKey) => in.email = EmailLower
        /\ (in.header # GoodKey /\ in.query # GoodKey /\ API_KEYS # << >>)
              => in.email \in {NoEmail, EmailLower}}

\* the upstream validator has not been called (yet) for the request
NoUpstream == [kind |-> "none", status |-> "none", code |-> 0]

\* PxReceive with the bug of a check that accepts any key that is present
PxReceiveAnyKey ==
    /\ prog = "proxy"
    /\ px_req.phase # "upstream"
    /\ \E in \in PxInputs :
          LET clientApiKey == IF in.header # NoKey THEN in.header ELSE in.query
              forbidden == /\ Len(API_KEYS) > 0
                           /\ clientApiKey = NoKey
              base == PxNoResponse
          IN  px_req' = [header |-> in.header, query |-> in.query, email |-> in.email,
                         up |-> NoUpstream,
                         stampAtCall |-> lastLoadedTimestamp,
                         phase |-> IF forbidden \/ in.email = NoEmail
                                   THEN "done" ELSE "upstream",
                         out |-> IF forbidden
                                 THEN [base EXCEPT !.code = StatusForbidden]
                                 ELSE IF in.email = NoEmail
                                 THEN [base EXCEPT !.code = StatusBadRequest]
                                 ELSE base]
    /\ UNCHANGED << prog, notPx, now, remoteMode, remoteBody,
                    disposableDomains, lastLoadedTimestamp, API_KEYS, px_loads,
                    px_last >>

\* server.js:102-119: a request arrives; it is answered 403 or 400, or the
\* upstream validator is called (stampAtCall keeps what lastLoadedTimestamp
\* was then, which the handler does not read)
PxReceive ==
    /\ prog = "proxy"
    /\ px_req.phase # "upstream"
    /\ \E in \in PxInputs :
          LET clientApiKey == IF in.header # NoKey THEN in.header ELSE in.query
              forbidden == /\ Len(API_KEYS) > 0
                           /\ (clientApiKey = NoKey \/ clientApiKey \notin Range(API_KEYS))
              base == PxNoResponse
          IN  px_req' = [header |-> in.header, query |-> in.query, email |-> in.email,
                         up |-> NoUpstream,
                         stampAtCall |-> lastLoadedTimestamp,
                         phase |-> IF forbidden \/ in.email = NoEmail
                                   THEN "done" ELSE "upstream",
                         out |-> IF forbidden
                                 THEN [base EXCEPT !.code = StatusForbidden]
                                 ELSE IF in.email = NoEmail
                                 THEN [base EXCEPT !.code = StatusBadRequest]
                                 ELSE base]
    /\ UNCHANGED << prog, notPx, now, remoteMode, remoteBody,
                    disposableDomains, lastLoadedTimestamp, API_KEYS, px_loads,
                    px_last >>

\* what axios.get of the upstream validator gives: a response with a
\* status, an error with the upstream's response (error.response), an error
\* without a response (error.request), or another error
UpstreamResults ==
    [kind : {"data"}, status : ValidationStatuses, code : {StatusOK}]
      \cup [kind : {"response"}, status : {"none"},
            code : {StatusBadRequest}]
      \cup [kind : {"request", "setup"}, status : {"none"}, code : {0}]

\* ProxyResponse with the bug of an error answer while no load of the
\* blocklist has succeeded yet
ProxyResponseNeedsLoad(email, up) ==
    IF up.kind = "data" /\ lastLoadedTimestamp = 0
    THEN [PxNoResponse EXCEPT !.code = StatusInternalServerError,
                              !.upstream = up.status]
    ELSE IF up.kind = "data"
    THEN LET domain == getDomainFromEmail(email)
             looks == up.status = "VALID" /\ domain # << >>
             found == looks /\ domain \in disposableDomains
             finalStatus == IF found THEN "DISPOSABLE_BY_EXTERNAL_BLOCKLIST"
                            ELSE up.status
         IN  [code |-> StatusOK, upstream |-> up.status, finalStatus |-> finalStatus,
              isDisposableByExternalBlocklist |-> found,
              lastRefreshed |-> formatTimestamp(lastLoadedTimestamp),
              RESULT |-> finalStatus \in {"VALID", "PROBABLY_VALID"},
              lookedUp |-> looks]
    ELSE [PxNoResponse EXCEPT
            !.code = IF up.kind = "response" THEN up.code
                     ELSE StatusInternalServerError,
            !.upstream = "error"]

\* ProxyResponse with the bug of answering 500 to every error of the call
\* of the upstream validator
ProxyResponseAlways500(email, up) ==
    IF up.kind = "data"
    THEN LET domain == getDomainFromEmail(email)
             looks == up.status = "VALID" /\ domain # << >>
             found == looks /\ domain \in disposableDomains
             finalStatus == IF found THEN "DISPOSABLE_BY_EXTERNAL_BLOCKLIST"
                            ELSE up.status
         IN  [code |-> StatusOK, upstream |-> up.status, finalStatus |-> finalStatus,
              isDisposableByExternalBlocklist |-> found,
              lastRefreshed |-> formatTimestamp(lastLoadedTimestamp),
              RESULT |-> finalStatus \in {"VALID", "PROBABLY_VALID"},
              lookedUp |-> looks]
    ELSE [PxNoResponse EXCEPT
            !.code = StatusInternalServerError,
            !.upstream = "error"]

\* ProxyResponse with the bug of a lastRefreshed that was read before the
\* call of the upstream validator
ProxyResponseEarlyStamp(email, up) ==
    IF up.kind = "data"
    THEN LET domain == getDomainFromEmail(email)
             looks == up.status = "VALID" /\ domain # << >>
             found == looks /\ domain \in disposableDomains
             finalStatus == IF found THEN "DISPOSABLE_BY_EXTERNAL_BLOCKLIST"
                            ELSE up.status
         IN  [code |-> StatusOK, upstream |-> up.status, finalStatus |-> finalStatus,
              isDisposableByExternalBlocklist |-> found,
              lastRefreshed |-> formatTimestamp(px_req.stampAtCall),
              RESULT |-> finalStatus \in {"VALID", "PROBABLY_VALID"},
              lookedUp |-> looks]
    ELSE [PxNoResponse EXCEPT
            !.code = IF up.kind = "response" THEN up.code
                     ELSE StatusInternalServerError,
            !.upstream = "error"]

\* server.js:119-171: the response to a request whose call of the upstream
\* validator settled with up
ProxyResponse(email, up) ==
    IF up.kind = "data"
    THEN LET domain == getDomainFromEmail(email)
             looks == up.status = "VALID" /\ domain # << >>
             found == looks /\ domain \in disposableDomains
             finalStatus == IF found THEN "DISPOSABLE_BY_EXTERNAL_BLOCKLIST"
                            ELSE up.status
         IN  [code |-> StatusOK, upstream |-> up.status, finalStatus |-> finalStatus,
              isDisposableByExternalBlocklist |-> found,
              lastRefreshed |-> formatTimestamp(lastLoadedTimestamp),
              RESULT |-> finalStatus \in {"VALID", "PROBABLY_VALID"},
              lookedUp |-> looks]
    ELSE [PxNoResponse EXCEPT
            !.code = IF up.kind = "response" THEN up.code
                     ELSE StatusInternalServerError,
            !.upstream = "error"]

\* the upstream validator's call settles and the handler runs to its end
PxRespond ==
    /\ prog = "proxy"
    /\ px_req.phase = "upstream"
    /\ \E up \in UpstreamResults :
          px_req' = [px_req EXCEPT !.phase = "done",
                                   !.up = up,
                                   !.out = ProxyResponse(px_req.email, up)]
    /\ UNCHANGED << prog, notPx, now, remoteMode, remoteBody,
                    disposableDomains, lastLoadedTimestamp, API_KEYS, px_loads,
                    px_last >>

InitEnv ==
    /\ now = StartTime
    /\ remoteMode \in RemoteModes
    /\ remoteBody \in RemoteBodies
    /\ log = {}

ExtIdle ==
    /\ c_disposableDomains = NewExternalDisposableChecker.disposableDomains
    /\ c_lastUpdated = NewExternalDisposableChecker.lastUpdated
    /\ c_mu = "free"
    /\ ext_pc = "startup"
    /\ ext_ld = [k \in ExtCallers |-> IdleLoad]
    /\ tickPending = FALSE
    /\ ext_req = NoRequest

DbIdle ==
    /\ db_domains = NewDisposableBlocklist.domains
    /\ db_once = "new"
    /\ db_mu = "free"
    /\ db_ld = [k \in DbCallers |-> IdleCall]
    /\ m1_pc = "startup"
    /\ m1_req = NoRequest

\* the proxy before node runs server.js
PxIdle ==
    /\ disposableDomains = {}
    /\ lastLoadedTimestamp = 0
    /\ API_KEYS = << >>
    /\ px_loads = 0
    /\ px_last = "none"
    /\ px_req = [phase |-> "none"]

AllIdle == ExtIdle /\ DbIdle /\ api_req = NoRequest

\* server.js:14-17, 69: the state when the script has run: the first call
\* of loadDisposableDomains waits for its response
InitProxy ==
    /\ prog = "proxy"
    /\ InitEnv
    /\ AllIdle
    /\ disposableDomains = {}
    /\ lastLoadedTimestamp = 0
    /\ API_KEYS \in {<< >>, << GoodKey >>}
    /\ px_loads = 1
    /\ px_last = "none"
    /\ px_req = [phase |-> "none"]

InitExt == prog = "ext" /\ InitEnv /\ AllIdle /\ PxIdle

InitDbl == prog = "dbl" /\ InitEnv /\ AllIdle /\ PxIdle

InitMain1 == prog = "main1" /\ InitEnv /\ AllIdle /\ PxIdle

\* the handlers of "api" read neither the clock nor the remote source
InitApi ==
    /\ prog = "api"
    /\ now = StartTime
    /\ remoteMode = "ok"
    /\ remoteBody = Body1
    /\ log = {}
    /\ AllIdle
    /\ PxIdle

NextExt ==
    \/ ExtStartupLoad
    \/ ExtTick
    \/ ExtTickerRecv
    \/ \E k \in ExtCallers :
          \/ ExtFetchReturn(k)
          \/ ExtScan(k)
          \/ ExtScanErr(k)
          \/ ExtLock(k)
          \/ ExtSetDomains(k)
          \/ ExtSetLastUpdated(k)
          \/ ExtUnlock(k)
    \/ ExtHandle
    \/ ExtListenFails

DbSteps ==
    \E k \in DbCallers :
          \/ DbWaitDone(k)
          \/ DbFetchReturn(k)
          \/ DbScan(k)
          \/ DbScanErr(k)
          \/ DbLock(k)
          \/ DbSetDomains(k)
          \/ DbUnlock(k)
          \/ DbLookup(k)

NextDbl == (\E k \in Clients : DblCall(k)) \/ DbSteps

NextMain1 == M1StartupLoad \/ M1Handle \/ DbSteps

NextProxy == PxHourlyCheck \/ PxLoadSettles \/ PxReceive \/ PxRespond

Init == InitExt \/ InitDbl \/ InitMain1 \/ InitApi \/ InitProxy

Next ==
    \/ Advance
    \/ RemoteChange
    \/ NextExt
    \/ NextDbl
    \/ NextMain1
    \/ ApiHandle
    \/ NextProxy

Spec == Init /\ [][Next]_vars

\* The program "dbl" alone, with the Go scheduler's guarantee that a
\* goroutine which can run does run, and with callers that never stop
\* calling Load and IsDisposable.
NextDblEnv == NextDbl \/ RemoteChange

FairSpecDbl ==
    /\ InitDbl
    /\ [][NextDblEnv]_vars
    /\ WF_vars(DbSteps)
    /\ \A k \in Clients : WF_vars(DblCall(k))

\* The proxy alone: node runs a callback that is ready (a timer that is
\* due, a promise that has settled), and a fetch whose remote source
\* answers again and again does settle.
NextProxyEnv == NextProxy \/ RemoteChange

FairSpecProxy ==
    /\ InitProxy
    /\ [][NextProxyEnv]_vars
    /\ WF_vars(PxHourlyCheck)
    /\ SF_vars(PxLoadSettles)
    /\ WF_vars(PxRespond)

-----------------------------------------------------------------------------
(* The claims *)

DomainLower == << "m", ".", "i", "o" >>

\* the sets a complete scan of a body of the remote source gives
ExtSnapshots == {ExtScanAll({}, ScanLines(b)) : b \in RemoteBodies}
DbSnapshots == {DbScanAll({}, ScanLines(b)) : b \in RemoteBodies}

\* C1: a call of LoadDisposableDomains that returns an error (from client.Get,
\* from the status test or from the scanner) and a call of
\* loadDisposableDomains that ends in its catch block leave the active set
\* of domains as it was.
C1_FailedRefreshKeepsSnapshot ==
    [][ /\ \A k \in ExtCallers :
              (ext_ld[k].pc \in {"get", "scan"} /\ ext_ld'[k].pc = "idle")
                 => c_disposableDomains' = c_disposableDomains
        /\ (px_loads' < px_loads /\ px_last' = "failed")
              => disposableDomains' = disposableDomains ]_vars

\* a loaded set with m.io in it is still the active one after a refresh of
\* the proxy has failed
C1_Witness ==
    /\ prog = "proxy"
    /\ px_last = "failed"
    /\ lastLoadedTimestamp # 0
    /\ DomainLower \in disposableDomains

\* C2: the active set is only ever the empty set of the constructor or the
\* set of a complete scan; it changes only in the one assignment a writer
\* makes under the lock, to the set that writer has built; and a lookup
\* reads it when no writer holds the lock.
C2_SnapshotSwappedWhole ==
    [][ /\ c_disposableDomains' \in ExtSnapshots \cup {{}}
        /\ c_disposableDomains' # c_disposableDomains
              => \E k \in ExtCallers :
                    /\ ext_ld[k].pc = "set"
                    /\ c_mu = k
                    /\ c_disposableDomains' = ext_ld[k].newDomains
        /\ (ext_req' # ext_req /\ ext_req'.lookedUp)
              => /\ c_mu = "free"
                 /\ ext_req'.isDisposable =
                       (ToLower(Split(ext_req'.email, "@")[2]) \in c_disposableDomains)
        /\ db_domains' \in DbSnapshots \cup {{}}
        /\ db_domains' # db_domains
              => \E k \in DbCallers :
                    /\ db_ld[k].pc = "set"
                    /\ db_mu = k
                    /\ db_domains' = db_ld[k].newDomains ]_vars

\* a request has been answered from a complete set while a refresh has
\* scanned a part of the new body
C2_Witness ==
    /\ prog = "ext"
    /\ ext_ld["ticker"].pc = "scan"
    /\ ext_ld["ticker"].lines # << >>
    /\ ext_ld["ticker"].newDomains # {}
    /\ c_disposableDomains \in ExtSnapshots \ {ext_ld["ticker"].newDomains}
    /\ ext_req.code = StatusOK
    /\ ext_req.lookedUp

\* C3: no program ends because the first load of the blocklist failed, and a
\* program that serves with no load done yet has an empty set of domains.
C3_FailedFirstLoadKeepsServing ==
    /\ m1_pc # "exited"
    /\ (ext_pc = "serving" /\ c_lastUpdated = 0) => c_disposableDomains = {}
    /\ (prog = "proxy" /\ lastLoadedTimestamp = 0) => disposableDomains = {}

\* C4: when the remote source is reachable from some moment on, a first
\* load of the DisposableBlocklist that has failed is followed by a load
\* that publishes a fetched set.
C4_FailedFirstLoadRecovers ==
    (<>[](remoteMode = "ok"))
       => []( ("load_error" \in log) => <>(db_domains \in DbSnapshots) )

\* C5: once a load has succeeded, a call of IsDisposable whose domain is,
\* letter case aside, a domain of the loaded list has returned true.
C5_LookupIgnoresCase ==
    \A k \in Clients :
       ( /\ db_ld[k].pc = "idle"
         /\ db_ld[k].op = "IsDisposable"
         /\ "loaded" \in log
         /\ \E d \in db_domains : ToLower(d) = ToLower(db_ld[k].domain) )
          => db_ld[k].result = TRUE

\* C6: a call of IsDisposable that returns while no load has published a
\* set (the DisposableBlocklist has logged no successful load, the
\* ExternalDisposableChecker still has the zero lastUpdated) returns false,
\* whatever the domain.
C6_NoSnapshotMeansFalse ==
    [][ /\ \A k \in Clients :
              ( /\ db_ld'[k] # db_ld[k]
                /\ db_ld'[k].pc = "idle"
                /\ db_ld'[k].op = "IsDisposable"
                /\ "loaded" \notin log' )
                 => db_ld'[k].result = FALSE
        /\ (ext_req' # ext_req /\ ext_req'.lookedUp /\ c_lastUpdated = 0)
              => ext_req'.isDisposable = FALSE ]_vars

\* the checker has answered "not disposable" for a@m.io with no load
\* completed yet, while the first refresh has m.io in the map it is building
C6_Witness ==
    /\ prog = "ext"
    /\ c_lastUpdated = 0
    /\ ext_req.code = StatusOK
    /\ ext_req.lookedUp
    /\ ext_req.email = EmailLower
    /\ ~ext_req.isDisposable
    /\ ext_ld["ticker"].pc = "scan"
    /\ DomainLower \in ext_ld["ticker"].newDomains

\* C7: at most one call of loadDisposableDomains waits for its response in
\* the proxy, and at most one caller is inside LoadDisposableDomains.
C7_NoOverlappingRefresh ==
    /\ px_loads <= 1
    /\ Cardinality({k \in ExtCallers : ext_ld[k].pc # "idle"}) <= 1

\* C8: a response of the disposable-check handler or of the proxy carries a
\* status other than the one the validation pipeline gave only if that one
\* was VALID and the blocklist has the address's domain; for any other
\* pipeline status the status and the isDisposable flag are the pipeline's
\* (the proxy's own flag stays false), whatever the blocklist holds.
C8_OnlyValidIsOverwritten ==
    [][ /\ (m1_req' # m1_req /\ m1_req'.code = StatusOK)
              => /\ m1_req'.status # m1_req'.pipeline
                      => /\ m1_req'.pipeline = ValidationStatusValid
                         /\ \E d \in db_domains :
                               ToLower(d) = ToLower(extractDomain(m1_req'.email))
                 /\ m1_req'.pipeline # ValidationStatusValid
                      => /\ m1_req'.status = m1_req'.pipeline
                         /\ m1_req'.isDisposable = m1_req'.pipelineIsDisposable
        /\ (px_req' # px_req /\ px_req'.phase = "done" /\ px_req'.out.code = StatusOK)
              => /\ px_req'.out.finalStatus # px_req'.out.upstream
                      => /\ px_req'.out.upstream = "VALID"
                         /\ \E d \in disposableDomains :
                               ToLower(d) = ToLower(getDomainFromEmail(px_req'.email))
                 /\ px_req'.out.upstream # "VALID"
                      => /\ px_req'.out.finalStatus = px_req'.out.upstream
                         /\ ~px_req'.out.isDisposableByExternalBlocklist ]_vars

\* the handler has returned INVALID_DOMAIN, as the pipeline gave it, for an
\* address whose domain is in the loaded blocklist
C8_Witness ==
    /\ prog = "main1"
    /\ m1_req.code = StatusOK
    /\ m1_req.pipeline = "INVALID_DOMAIN"
    /\ m1_req.status = "INVALID_DOMAIN"
    /\ ~m1_req.pipelineIsDisposable
    /\ ~m1_req.isDisposable
    /\ ToLower(extractDomain(m1_req.email)) \in db_domains

\* C9: a GET or POST request with a non-empty address, answered by the
\* handler of /api/check-disposable (or by the DisposableCheckHandler), is
\* not refused for its method, has had the validation service called once,
\* and has had the blocklist consulted when the service said VALID.
C9_CheckDisposableRunsPipeline ==
    /\ ( /\ ext_req.code # 0
          /\ ext_req.method \in {"GET", "POST"}
          /\ ext_req.email # NoEmail )
           => /\ ext_req.code # StatusMethodNotAllowed
              /\ ext_req.validations = 1
    /\ ( /\ m1_req.code # 0
          /\ m1_req.method \in {"GET", "POST"}
          /\ m1_req.email # NoEmail )
           => /\ m1_req.code # StatusMethodNotAllowed
              /\ m1_req.validations = 1
              /\ ( /\ m1_req.pipeline = ValidationStatusValid
                    /\ extractDomain(m1_req.email) # << >> ) => m1_req.lookedUp

\* C10: a request with an unsupported method, with a body that does not
\* decode, or with no address (an empty one, or an empty list for the batch
\* route) has been answered with a 4xx status and without a call of the
\* validation service, on every route.
C10_ClientErrorsRejected ==
    /\ ( /\ api_req.code # 0
          /\ \/ api_req.method \notin {"GET", "POST"}
             \/ (api_req.method = "POST" /\ ~api_req.decodes)
             \/ (api_req.endpoint = "/validate/batch" /\ api_req.emails = << >>)
             \/ (api_req.endpoint # "/validate/batch"
                    /\ FirstAddress(api_req.emails) = NoEmail) )
           => /\ api_req.code \in 400..499
              /\ api_req.calls = 0
    /\ ( /\ m1_req.code # 0
          /\ \/ m1_req.method \notin {"GET", "POST"}
             \/ (m1_req.method = "POST" /\ ~m1_req.decodes)
             \/ m1_req.email = NoEmail )
           => /\ m1_req.code \in 400..499
              /\ m1_req.validations = 0
    /\ ( /\ ext_req.code # 0
          /\ \/ ext_req.method \notin {"GET", "POST"}
             \/ (ext_req.method = "POST" /\ ~ext_req.decodes)
             \/ ext_req.email = NoEmail )
           => /\ ext_req.code \in 400..499
              /\ ext_req.validations = 0

\* the sets a successful load of the proxy gives
PxSnapshots == {JsParse(b) : b \in RemoteBodies}

\* C11: whatever the fetches of the blocklist have done, a request whose
\* validation gave a status is answered 200: the proxy computes its answer
\* from the set it holds, which is a loaded one or, with no load succeeded,
\* the empty one; the Go handlers answer 200 as well, and IsDisposable on
\* a DisposableBlocklist whose load failed returns false instead of an error.
C11_FetchFailureNotRaised ==
    [][ /\ (px_req' # px_req /\ px_req'.phase = "done"
                /\ px_req'.out.upstream \in ValidationStatuses)
              => /\ px_req'.out.code = StatusOK
                 /\ disposableDomains \in PxSnapshots \cup {{}}
                 /\ lastLoadedTimestamp = 0 => disposableDomains = {}
                 /\ px_req'.out.isDisposableByExternalBlocklist
                       = ( /\ px_req'.out.upstream = "VALID"
                           /\ getDomainFromEmail(px_req'.email) \in disposableDomains )
                 /\ ~px_req'.out.isDisposableByExternalBlocklist
                       => px_req'.out.finalStatus = px_req'.out.upstream
        /\ (m1_req' # m1_req /\ m1_req'.pipeline \in ValidationStatuses)
              => m1_req'.code = StatusOK
        /\ ( /\ ext_req' # ext_req
              /\ ext_req'.method = "POST"
              /\ ext_req'.decodes
              /\ MatchEmailRegex(ext_req'.email)
              /\ Len(Split(ext_req'.email, "@")) = 2 )
              => ext_req'.code = StatusOK
        /\ \A k \in Clients :
              ( /\ db_ld'[k] # db_ld[k]
                /\ db_ld'[k].pc = "idle"
                /\ db_ld'[k].op = "IsDisposable" )
                 => db_ld'[k].result \in BOOLEAN ]_vars

\* the only load of the proxy has failed and a request for a@m.io, which
\* the remote list holds, has been answered 200 with the upstream's VALID
C11_Witness ==
    /\ prog = "proxy"
    /\ px_last = "failed"
    /\ lastLoadedTimestamp = 0
    /\ remoteBody = Body1
    /\ px_req.phase = "done"
    /\ px_req.email = EmailLower
    /\ px_req.out.code = StatusOK
    /\ px_req.out.upstream = "VALID"
    /\ px_req.out.finalStatus = "VALID"
    /\ px_req.out.lastRefreshed = formatTimestamp(0)

\* C12: on a DisposableBlocklist a caller starts the remote fetch only as
\* the first to enter the once, which is never new again, so the fetch runs
\* at most once; and a set that has been published is never replaced.
C12_LoadRunsOnce ==
    [][ /\ \A k \in DbCallers :
              (db_ld[k].pc # "get" /\ db_ld'[k].pc = "get")
                 => /\ db_once = "new"
                    /\ db_once' = "running"
        /\ db_once # "new" => db_once' # "new"
        /\ "loaded" \in log => db_domains' = db_domains
        /\ db_domains # {} => db_domains' = db_domains ]_vars

\* two callers have each had Load return nil on a loaded blocklist while
\* the remote source has become unreachable
C12_Witness ==
    /\ prog = "dbl"
    /\ "loaded" \in log
    /\ db_domains # {}
    /\ remoteMode = "neterr"
    /\ \A k \in Clients :
          /\ db_ld[k].pc = "idle"
          /\ db_ld[k].op = "Load"
          /\ db_ld[k].result = "nil"

\* C13: a fetch of the blocklist does not stay in flight for ever: if from
\* some moment on the proxy always has a call of loadDisposableDomains in
\* flight, then again and again one of these calls comes to its end.
C13_EveryFetchCompletes ==
    (<>[](px_loads > 0)) => []<><<PxLoadSettles>>_vars

\* C14: when the process of main.go:119-182 has ended, no caller is inside
\* LoadDisposableDomains: the refresh task was stopped first and no fetch
\* was left in flight.
C14_SchedulerStopsOnShutdown ==
    ext_pc = "exited" => \A k \in ExtCallers : ext_ld[k].pc = "idle"

\* C15: a lock of a blocklist is held only by a writer that is at the
\* assignment of the new set, and no call of IsDisposable waits while a
\* load is fetching or scanning.
C15_LockOnlyAroundSwap ==
    /\ c_mu # "free" => ext_ld[c_mu].pc \in {"set", "stamp", "unlock"}
    /\ db_mu # "free" => db_ld[db_mu].pc \in {"set", "unlock"}
    /\ \A k \in Clients :
          ( /\ db_ld[k].op = "IsDisposable"
            /\ \E j \in DbCallers : db_ld[j].pc \in {"get", "scan"} )
             => db_ld[k].pc # "wait"

\* the trimmed lines of a body that are neither empty nor comments
WantedLines(body) ==
    {TrimSpace(l) : l \in Range(Split(body, "\n"))}
        \ {d \in {TrimSpace(l) : l \in Range(Split(body, "\n"))} :
              d = << >> \/ Head(d) = "#"}

LowerSet(S) == {ToLower(d) : d \in S}

\* a set that is, letter case aside, the wanted lines of some body, with no
\* empty entry and no entry that begins with '#'
IsWantedSet(S) ==
    /\ \E b \in RemoteBodies : LowerSet(S) = LowerSet(WantedLines(b))
    /\ \A d \in S : d # << >> /\ Head(d) # "#"

PxDomainListed(email) ==
    /\ Len(Split(email, "@")) = 2
    /\ ToLower(Split(email, "@")[2]) \in disposableDomains

C18_ApiKeyAllowlist ==
    [][ px_req' # px_req
          => LET keyless == /\ px_req'.header \notin Range(API_KEYS)
                            /\ px_req'.query \notin Range(API_KEYS)
             IN  /\ (API_KEYS # << >> /\ keyless)
                       => /\ px_req'.phase = "done"
                          /\ px_req'.out.code = StatusForbidden
                          /\ px_req'.out.upstream = "none"
                          /\ ~px_req'.out.lookedUp
                 /\ API_KEYS = << >> => px_req'.out.code # StatusForbidden ]_vars

\* with the key k configured, a request for a@m.io with the key x in its
\* header has been answered 403
C18_Witness ==
    /\ prog = "proxy"
    /\ API_KEYS = << GoodKey >>
    /\ px_req.phase = "done"
    /\ px_req.header = BadKey
    /\ px_req.query = NoKey
    /\ px_req.email = EmailLower
    /\ px_req.out.code = StatusForbidden

\* C19: on a DisposableBlocklist a caller is at the lookup, and a call of
\* IsDisposable returns, only when the first load has come to its end; a
\* call that starts while the load runs waits.
C19_LookupAfterFirstLoad ==
    [][ \A k \in DbCallers :
          /\ db_ld'[k].pc = "lookup" => db_once' = "done"
          /\ (db_ld[k].pc = "idle" /\ db_ld'[k].pc # "idle" /\ db_once = "running")
                => db_ld'[k].pc = "wait"
          /\ ( /\ db_ld'[k] # db_ld[k]
                /\ db_ld'[k].pc = "idle"
                /\ db_ld'[k].op = "IsDisposable" )
                => db_once' = "done" ]_vars

\* a call of IsDisposable waits while another caller's first load is in
\* the middle of its scan and nothing is published yet
C19_Witness ==
    /\ prog = "dbl"
    /\ db_once = "running"
    /\ db_domains = {}
    /\ \E k, j \in Clients :
          /\ db_ld[k].pc = "wait"
          /\ db_ld[k].op = "IsDisposable"
          /\ db_ld[j].pc = "scan"
          /\ db_ld[j].newDomains # {}

\* C20: an hourly check of the proxy starts a call of loadDisposableDomains
\* exactly when the time since the last successful load is at least
\* REFRESH_INTERVAL_HOURS; a load that fails leaves lastLoadedTimestamp as
\* it was (so the refresh stays due), a load that succeeds sets it to the
\* time of its end.
C20_RefreshWhenIntervalElapsed ==
    [][ prog = "proxy"
          => /\ px_loads' > px_loads
                   => now' - lastLoadedTimestamp >= REFRESH_INTERVAL_HOURS
             /\ now' # now
                   => px_loads' =
                        IF now' - lastLoadedTimestamp >= REFRESH_INTERVAL_HOURS
                        THEN px_loads + 1 ELSE px_loads
             /\ (px_loads' < px_loads /\ px_last' = "failed")
                   => lastLoadedTimestamp' = lastLoadedTimestamp
             /\ (px_loads' < px_loads /\ px_last' = "loaded")
                   => lastLoadedTimestamp' = now ]_vars

\* the load of the startup succeeded at once, and the hourly check that
\* came REFRESH_INTERVAL_HOURS later has started a refresh
C20_Witness ==
    /\ prog = "proxy"
    /\ lastLoadedTimestamp = StartTime
    /\ now = StartTime + REFRESH_INTERVAL_HOURS
    /\ px_last = "loaded"
    /\ px_loads = 1

\* C21: in an answer of the proxy that follows the call of the upstream
\* validator, RESULT is true exactly when the answer carries a finalStatus
\* of VALID or PROBABLY_VALID; it is false when the call ended in an error,
\* and then the answer has the status code of the upstream's response when
\* there was one, and 500 otherwise.
C21_ResultField ==
    [][ (px_req' # px_req /\ px_req.phase = "upstream")
          => LET out == px_req'.out
                 up == px_req'.up
             IN  /\ out.RESULT = ( /\ up.kind = "data"
                                   /\ out.finalStatus \in {"VALID", "PROBABLY_VALID"} )
                 /\ up.kind = "data" => out.code = StatusOK
                 /\ up.kind = "response" => out.code = up.code
                 /\ up.kind \in {"request", "setup"}
                       => out.code = StatusInternalServerError ]_vars

\* the upstream validator answered 400 and the proxy has passed the 400 on
\* with RESULT false
C21_Witness ==
    /\ prog = "proxy"
    /\ px_req.phase = "done"
    /\ px_req.up.kind = "response"
    /\ px_req.up.code = StatusBadRequest
    /\ px_req.out.code = StatusBadRequest
    /\ ~px_req.out.RESULT

\* C22: the proxy replaces its set and sets lastLoadedTimestamp in the one
\* step of a load that succeeds, and in no other step; the checker changes
\* its map and lastUpdated only while the writer holds the lock, and the
\* writer that gives the lock back has assigned both; a load that fails
\* changes neither; a timestamp is never set back, nor to zero.
C22_TimestampWithSet ==
    [][ /\ LET succeeds == px_loads' < px_loads /\ px_last' = "loaded"
           IN  /\ succeeds => /\ disposableDomains' = JsParse(remoteBody)
                               /\ lastLoadedTimestamp' = now
               /\ ~succeeds => /\ disposableDomains' = disposableDomains
                                /\ lastLoadedTimestamp' = lastLoadedTimestamp
        /\ lastLoadedTimestamp' >= lastLoadedTimestamp
        /\ lastLoadedTimestamp' = 0 => disposableDomains' = {}
        /\ ( \/ c_disposableDomains' # c_disposableDomains
              \/ c_lastUpdated' # c_lastUpdated )
              => c_mu \in ExtCallers /\ c_mu' = c_mu
        /\ c_lastUpdated' # c_lastUpdated
              => /\ c_lastUpdated' = now
                 /\ c_disposableDomains = ext_ld[c_mu].newDomains
        /\ (c_mu \in ExtCallers /\ c_mu' = "free")
              => /\ ext_ld[c_mu].pc = "unlock"
                 /\ c_disposableDomains = ext_ld[c_mu].newDomains
                 /\ c_lastUpdated # 0
        /\ \A k \in ExtCallers :
              (ext_ld[k].pc \in {"get", "scan"} /\ ext_ld'[k].pc = "idle")
                 => c_lastUpdated' = c_lastUpdated
        /\ c_lastUpdated' >= c_lastUpdated
        /\ (c_mu' = "free" /\ c_lastUpdated' = 0) => c_disposableDomains' = {} ]_vars

\* the refresh of the ticker, still holding the lock, has assigned the map
\* it built and has set lastUpdated to the later time
C22_Witness ==
    /\ prog = "ext"
    /\ c_mu = "ticker"
    /\ ext_ld["ticker"].pc = "unlock"
    /\ ext_ld["ticker"].newDomains = ExtScanAll({}, ScanLines(Body2))
    /\ c_disposableDomains = ext_ld["ticker"].newDomains
    /\ c_lastUpdated = StartTime + MaxTime

\* C23: on a DisposableBlocklist a call returns an error only if it ran the
\* fetch itself; a call that waited, or that came when the once was done,
\* changes neither the set nor the log and, when it waited, goes on as
\* after a nil; and once the first load has failed a lookup answers false
\* and logs nothing.
C23_OnlyTheFetcherFails ==
    [][ \A k \in DbCallers :
          /\ ( /\ db_ld'[k] # db_ld[k]
                /\ db_ld'[k].pc = "idle"
                /\ db_ld'[k].op = "Load"
                /\ db_ld'[k].result = "err" )
                => db_ld[k].pc \in {"get", "scan"}
          /\ (db_ld'[k] # db_ld[k] /\ "not_loaded_warning" \in log' \ log)
                => db_ld[k].pc \in {"get", "scan"}
          /\ (db_ld'[k] # db_ld[k] /\ db_ld[k].pc \in {"idle", "wait", "lookup"})
                => /\ db_domains' = db_domains
                   /\ log' = log
          /\ ( \/ (db_ld[k].pc = "wait" /\ db_ld'[k].pc # "wait")
                \/ (db_ld[k].pc = "idle" /\ db_ld'[k] # db_ld[k] /\ db_once = "done") )
                => IF db_ld'[k].op = "IsDisposable"
                   THEN db_ld'[k].pc = "lookup"
                   ELSE db_ld'[k].pc = "idle" /\ db_ld'[k].result = "nil"
          /\ ( /\ "load_error" \in log
                /\ db_ld[k].pc = "lookup"
                /\ db_ld'[k].pc = "idle" )
                => db_ld'[k].result = FALSE ]_vars

\* the first load has failed; since then, with the remote source back, one
\* caller has had nil from Load and the other false from IsDisposable("m.io"),
\* and no warning has been logged
C23_Witness ==
    /\ prog = "dbl"
    /\ log = {"load_error"}
    /\ remoteMode = "ok"
    /\ remoteBody = Body1
    /\ db_ld["c1"] = [IdleCall EXCEPT !.op = "Load", !.result = "nil"]
    /\ db_ld["c2"].pc = "idle"
    /\ db_ld["c2"].op = "IsDisposable"
    /\ db_ld["c2"].domain = DomainLower
    /\ db_ld["c2"].result = FALSE

\* C24: in the step that answers a request of the proxy with a verdict, the
\* set and the timestamp stay as they are, lastRefreshed is the text of the
\* timestamp that step finds and the flag is the lookup in the set that step
\* finds, whatever the loads have done since the upstream validator was
\* called; and the pair is one a load has published: the empty set with no
\* timestamp, or a loaded set with the time of its load.
C24_StampOfTheLookedUpSet ==
    [][ ( /\ px_req.phase = "upstream"
          /\ px_req'.phase = "done"
          /\ px_req'.up.kind = "data" )
          => LET out == px_req'.out
             IN  /\ disposableDomains' = disposableDomains
                 /\ lastLoadedTimestamp' = lastLoadedTimestamp
                 /\ out.lastRefreshed = formatTimestamp(lastLoadedTimestamp)
                 /\ out.isDisposableByExternalBlocklist
                       = ( /\ px_req'.up.status = "VALID"
                           /\ getDomainFromEmail(px_req.email) \in disposableDomains )
                 /\ out.lastRefreshed = formatTimestamp(0)
                       => ~out.isDisposableByExternalBlocklist
                 /\ out.lastRefreshed # formatTimestamp(0)
                       => disposableDomains \in PxSnapshots ]_vars

\* a request for a@m.io came when no load had succeeded; a load succeeded
\* while it waited for the upstream validator, and its answer has the flag
\* of the new set and the time of that load
C24_Witness ==
    /\ prog = "proxy"
    /\ px_req.phase = "done"
    /\ px_req.email = EmailLower
    /\ px_req.stampAtCall = 0
    /\ lastLoadedTimestamp # 0
    /\ px_req.up.kind = "data"
    /\ px_req.out.isDisposableByExternalBlocklist
    /\ px_req.out.lastRefreshed = formatTimestamp(lastLoadedTimestamp)

=============================================================================
